---- MODULE Spec2Model ----
(***************************************************************************)
(* Model of dotnet_fix.py: an NVDA global plugin that synthesizes names    *)
(* for unlabeled .NET controls from the text of their descendants.         *)
(*                                                                         *)
(* Python strings are sequences of one-character strings, so that strip(), *)
(* upper(), startswith(), "in" and join() are computed, not assumed.       *)
(* An attribute of a host object is a record [k, v]: k says what reading   *)
(* the attribute does ("raise": the read raises; "none": absent or None;   *)
(* "str", "list", "set", "obj": a value of that type, held in v).          *)
(***************************************************************************)
EXTENDS Integers, Sequences, FiniteSets, TLC

VARIABLES
    obj,        \* the NVDAObject the host hands to the plugin
    clsList,    \* the overlay class list of chooseNVDAObjectOverlayClasses
    hooked,     \* whether chooseNVDAObjectOverlayClasses has run on obj
    pc,         \* position of the running call: "idle", "visit", "done"
    op,         \* the running call: "none", "gather", "name", "detect"
    maxDepth,   \* argument of the running _gatherTextFromChildren
    maxItems,   \* argument of the running _gatherTextFromChildren
    out,        \* the list `out` of _gatherTextFromChildren
    stack,      \* the active calls of visit(): <<[path, i, depth], ...>>
    reads,      \* paths of the nodes whose attributes were read, in order
    gathered,   \* whether the running call has called _gatherTextFromChildren
    result      \* the value the finished call returned

vars == <<obj, clsList, hooked, pc, op, maxDepth, maxItems, out, stack,
          reads, gathered, result>>

-----------------------------------------------------------------------------
(* Attribute values *)

Raise == [k |-> "raise", v |-> <<>>]
None == [k |-> "none", v |-> <<>>]
Str(s) == [k |-> "str", v |-> s]
List(s) == [k |-> "list", v |-> s]
SetOf(s) == [k |-> "set", v |-> s]
Obj(r) == [k |-> "obj", v |-> r]

\* Python truthiness of a successfully read attribute.
Truthy(a) ==
    CASE a.k = "str" -> a.v # <<>>
      [] a.k = "list" -> a.v # <<>>
      [] a.k = "set" -> a.v # {}
      [] a.k = "obj" -> TRUE
      [] OTHER -> FALSE

-----------------------------------------------------------------------------
(* Python str operations *)

Whitespace == {" ", "\t", "\n"}

RECURSIVE LStrip(_)
LStrip(s) ==
    IF s # <<>> /\ Head(s) \in Whitespace THEN LStrip(Tail(s)) ELSE s

RECURSIVE RStrip(_)
RStrip(s) ==
    IF s # <<>> /\ s[Len(s)] \in Whitespace
    THEN RStrip(SubSeq(s, 1, Len(s) - 1))
    ELSE s

\* str.strip()
Strip(s) == RStrip(LStrip(s))

\* c in s
Contains(s, c) == \E i \in 1..Len(s) : s[i] = c

\* s.startswith(p)
StartsWith(s, p) == Len(s) >= Len(p) /\ SubSeq(s, 1, Len(p)) = p

LowerCase == <<"a", "b", "c", "d", "e", "f", "g", "h", "i", "j", "k", "l", "m",
               "n", "o", "p", "q", "r", "s", "t", "u", "v", "w", "x", "y", "z">>
UpperCase == <<"A", "B", "C", "D", "E", "F", "G", "H", "I", "J", "K", "L", "M",
               "N", "O", "P", "Q", "R", "S", "T", "U", "V", "W", "X", "Y", "Z">>

UpperChar(c) ==
    IF \E i \in 1..Len(LowerCase) : LowerCase[i] = c
    THEN UpperCase[CHOOSE i \in 1..Len(LowerCase) : LowerCase[i] = c]
    ELSE c

\* str.upper()
Upper(s) == [i \in 1..Len(s) |-> UpperChar(s[i])]

\* " ".join(pieces)
RECURSIVE Join(_)
Join(pieces) ==
    IF pieces = <<>> THEN <<>>
    ELSE IF Len(pieces) = 1 THEN pieces[1]
    ELSE pieces[1] \o <<" ">> \o Join(Tail(pieces))

-----------------------------------------------------------------------------
(* Role sets *)

\* The names controlTypes.Role defines (the host's enumeration).
HostRoles == {"BUTTON", "TOGGLEBUTTON", "LINK", "MENUITEM", "TAB", "TABITEM",
              "CHECKBOX", "RADIOBUTTON", "PANE", "STATIC_TEXT", "GROUPING",
              "LISTITEM", "TREEVIEWITEM", "WINDOW", "EDITABLETEXT"}

\* _role(name): the enumeration value, None for a name the host lacks.
Role(name) == IF name \in HostRoles THEN Str(name) ELSE None

\* _build_role_set(names): the resolved values, unknown names skipped.
BuildRoleSet(names) == {Role(n).v : n \in {m \in names : Role(m).k # "none"}}

ALWAYS_CANDIDATE_ROLES ==
    BuildRoleSet({"BUTTON", "TOGGLEBUTTON", "LINK", "MENUITEM", "TAB",
                  "TABITEM", "CHECKBOX", "RADIOBUTTON"})

FOCUSABLE_CANDIDATE_ROLES == BuildRoleSet({"PANE", "STATIC_TEXT", "GROUPING"})

ITEM_ROLES == BuildRoleSet({"LISTITEM", "TREEVIEWITEM"})

FOCUSABLE == "FOCUSABLE"

-----------------------------------------------------------------------------
(* NameClassifier *)

ClassyMinLen == 8

\* _isClassyName(name), name an attribute value that was read without raising.
IsClassyName(name) ==
    IF name.k # "str" THEN FALSE
    ELSE LET s == Strip(name.v) IN
         IF s = <<>> THEN FALSE
         ELSE IF Contains(s, " ") THEN FALSE
         ELSE IF Contains(s, ".") /\ Len(s) >= ClassyMinLen THEN TRUE
         ELSE FALSE

-----------------------------------------------------------------------------
(* FrameworkDetector *)

FrameworkAttrs == <<"cachedFrameworkID", "cachedFrameworkId",
                    "CurrentFrameworkId", "currentFrameworkId">>

DotNetFrameworks == {<<"W", "P", "F">>, <<"X", "A", "M", "L">>,
                     <<"W", "I", "N", "F", "O", "R", "M">>,
                     <<"W", "I", "N", "F", "O", "R", "M", "S">>,
                     <<"M", "A", "U", "I">>}

WinFormsPrefix == <<"W", "i", "n", "d", "o", "w", "s", "F", "o", "r", "m", "s",
                    "1", "0", ".">>

\* Mutant of ProbeFrameworkAttrs: the value is not upper-cased.
RECURSIVE ProbeNoUpper(_, _)
ProbeNoUpper(el, i) ==
    IF i > Len(FrameworkAttrs) THEN <<>>
    ELSE LET fw == el[FrameworkAttrs[i]] IN
         IF fw.k = "raise" THEN <<>>
         ELSE IF Truthy(fw) THEN fw.v
         ELSE ProbeNoUpper(el, i + 1)

\* The for loop of _getUIAFrameworkId from its i-th attribute name on.
RECURSIVE ProbeFrameworkAttrs(_, _)
ProbeFrameworkAttrs(el, i) ==
    IF i > Len(FrameworkAttrs) THEN <<>>
    ELSE LET fw == el[FrameworkAttrs[i]] IN
         IF fw.k = "raise" THEN <<>>
         ELSE IF Truthy(fw) THEN Upper(fw.v)
         ELSE ProbeFrameworkAttrs(el, i + 1)

\* _getUIAFrameworkId(obj)
GetUIAFrameworkId(o) ==
    LET el == o.UIAElement IN
    IF el.k = "raise" THEN <<>>
    ELSE IF ~Truthy(el) THEN <<>>
    ELSE ProbeFrameworkAttrs(el.v, 1)

\* _isDotNetUI(obj)
IsDotNetUI(o) ==
    IF GetUIAFrameworkId(o) \in DotNetFrameworks THEN TRUE
    ELSE LET w == o.windowClassName IN
         IF w.k = "raise" THEN FALSE
         ELSE LET wcn == IF Truthy(w) THEN w.v ELSE <<>> IN
              StartsWith(wcn, WinFormsPrefix)

-----------------------------------------------------------------------------
(* DescendantTextCollector: _gatherTextFromChildren, one step per node *)

DefaultMaxDepth == 3
DefaultMaxItems == 10

\* Bounds of the arguments and trees of the direct calls.
MaxDepthArg == 2
MaxItemsArg == 3
MaxTreeDepth == 4
MaxWidth == 2

\* The node reached from node n by the child indexes of path p.
RECURSIVE NodeAt(_, _)
NodeAt(n, p) ==
    IF p = <<>> THEN n ELSE NodeAt(n.children.v[Head(p)], Tail(p))

\* `nodes or []` for the children of the node at path p.
Nodes(p) ==
    LET c == NodeAt(obj, p).children IN
    IF c.k = "list" THEN c.v ELSE <<>>

\* Lines 140-144: the text taken from node n. raised: a read raised;
\* frag: the fragment appended (<<>> when none is).
NodeText(n) ==
    IF n.name.k = "raise" THEN [raised |-> TRUE, frag |-> <<>>]
    ELSE IF Truthy(n.name)
         THEN [raised |-> FALSE, frag |-> Strip(n.name.v)]
    ELSE IF n.value.k = "raise" THEN [raised |-> TRUE, frag |-> <<>>]
    ELSE IF Truthy(n.value)
         THEN [raised |-> FALSE, frag |-> Strip(n.value.v)]
    ELSE IF n.description.k = "raise" THEN [raised |-> TRUE, frag |-> <<>>]
    ELSE IF n.description.k = "str"
         THEN [raised |-> FALSE, frag |-> Strip(n.description.v)]
    ELSE [raised |-> FALSE, frag |-> <<>>]

\* Mutant of CapReached: the cap is tested one entry late.
CapReachedLate(o, m) == Len(o) > m

\* len(out) >= maxItems (lines 133 and 136)
CapReached(o, m) == Len(o) >= m

\* depth < 0 (line 133)
TooDeep(depth) == depth < 0

\* A call visit(children of the node at p, depth) made with stack st and
\* list o: the guard of line 133 returns at once, otherwise the for loop
\* starts at the first node.
CallVisit(st, p, depth, o) ==
    IF TooDeep(depth) \/ CapReached(o, maxItems) THEN st
    ELSE Append(st, [path |-> p, i |-> 1, depth |-> depth])

\* Lines 129 and 150-153: the body of _gatherTextFromChildren up to the first
\* call of visit; reading obj.children may raise, which is swallowed.
StartGather(md, mi) ==
    /\ maxDepth' = md
    /\ maxItems' = mi
    /\ out' = <<>>
    /\ reads' = <<>>
    /\ gathered' = TRUE
    /\ stack' = IF obj.children.k = "raise" \/ TooDeep(md) \/ CapReached(<<>>, mi)
                THEN <<>>
                ELSE <<[path |-> <<>>, i |-> 1, depth |-> md]>>

\* Lines 135-148: one iteration of the for loop on a node.
VisitNode ==
    /\ pc = "visit"
    /\ stack # <<>>
    /\ LET f == stack[Len(stack)]
           nodes == Nodes(f.path)
       IN /\ f.i <= Len(nodes)
          /\ ~CapReached(out, maxItems)
          /\ LET n == nodes[f.i]
                 p == Append(f.path, f.i)
                 r == NodeText(n)
                 o == IF ~r.raised /\ r.frag # <<>> THEN Append(out, r.frag)
                      ELSE out
                 next == [stack EXCEPT ![Len(stack)].i = f.i + 1]
             IN /\ reads' = Append(reads, p)
                /\ out' = o
                /\ stack' = IF r.raised \/ n.children.k = "raise" THEN next
                            ELSE CallVisit(next, p, f.depth - 1, o)
    /\ UNCHANGED <<obj, clsList, hooked, pc, op, maxDepth, maxItems, gathered,
                   result>>

\* Lines 135-137: the for loop ends (no node left, or the break of line 137)
\* and this call of visit returns.
VisitReturn ==
    /\ pc = "visit"
    /\ stack # <<>>
    /\ LET f == stack[Len(stack)] IN
          f.i > Len(Nodes(f.path)) \/ CapReached(out, maxItems)
    /\ stack' = SubSeq(stack, 1, Len(stack) - 1)
    /\ UNCHANGED <<obj, clsList, hooked, pc, op, maxDepth, maxItems, out, reads,
                   gathered, result>>

\* A direct call _gatherTextFromChildren(obj, md, mi).
GatherBegin ==
    /\ pc = "idle"
    /\ \E md \in 0..MaxDepthArg, mi \in 0..MaxItemsArg : StartGather(md, mi)
    /\ pc' = "visit"
    /\ op' = "gather"
    /\ UNCHANGED <<obj, clsList, hooked, result>>

\* Line 155: return out.
GatherEnd ==
    /\ pc = "visit"
    /\ op = "gather"
    /\ stack = <<>>
    /\ result' = List(out)
    /\ pc' = "done"
    /\ UNCHANGED <<obj, clsList, hooked, op, maxDepth, maxItems, out, stack,
                   reads, gathered>>

-----------------------------------------------------------------------------
(* EligibilityPolicy and NameSynthesizer *)

\* role in S, for a role attribute that was read (None is in no set).
RoleIn(role, S) == role.k = "str" /\ role.v \in S

\* Mutant of StatesOf: a raising read counts as focusable.
StatesOfFocusableOnRaise(o) ==
    IF o.states.k = "set" THEN o.states.v
    ELSE IF o.states.k = "raise" THEN {FOCUSABLE}
    ELSE {}

\* Lines 189-192 and 221-224: getattr(obj, "states", set()) or set(), an
\* empty set when the read raises.
StatesOf(o) == IF o.states.k = "set" THEN o.states.v ELSE {}

\* Lines 194 and 226.
IsFocusable(o) == FOCUSABLE \in StatesOf(o)

\* Mutant of RoleCandidate: the focusable requirement is dropped.
RoleCandidateNoFocus(role, isFocusable) ==
    \/ RoleIn(role, ALWAYS_CANDIDATE_ROLES)
    \/ RoleIn(role, FOCUSABLE_CANDIDATE_ROLES)

\* Lines 196-198 and 229-231.
RoleCandidate(role, isFocusable) ==
    \/ RoleIn(role, ALWAYS_CANDIDATE_ROLES)
    \/ (RoleIn(role, FOCUSABLE_CANDIDATE_ROLES) /\ isFocusable)

\* Mutant of ItemOverride: the name is not tested for being class-like.
ItemOverrideAnyName(o, original) ==
    LET role == IF o.role.k = "raise" THEN None ELSE o.role IN
    RoleIn(role, ITEM_ROLES) /\ IsDotNetUI(o)

\* Lines 169-173: the class-like name of an item is overridden.
ItemOverride(o, original) ==
    LET role == IF o.role.k = "raise" THEN None ELSE o.role IN
    RoleIn(role, ITEM_ROLES) /\ IsDotNetUI(o) /\ IsClassyName(original)

\* Lines 180-199: an element without a name is eligible for synthesis.
NoOriginalEligible(o) ==
    IF o.role.k = "raise" THEN FALSE
    ELSE IF ~IsDotNetUI(o) THEN FALSE
    ELSE RoleCandidate(o.role, IsFocusable(o))

\* Lines 164-201: what _get_name does before it returns or gathers:
\* "raise" (super()._get_name() raised), "gather" or "original".
NamePath(o) ==
    LET original == o.name IN
    IF original.k = "raise" THEN "raise"
    ELSE IF Truthy(original)
         THEN IF ItemOverride(o, original) THEN "gather" ELSE "original"
    ELSE IF NoOriginalEligible(o) THEN "gather" ELSE "original"

\* _get_name up to its first return or its call of _gatherTextFromChildren.
GetNameBegin ==
    /\ pc = "idle"
    /\ op' = "name"
    /\ IF NamePath(obj) = "gather"
       THEN /\ StartGather(DefaultMaxDepth, DefaultMaxItems)
            /\ pc' = "visit"
            /\ UNCHANGED result
       ELSE /\ result' = IF NamePath(obj) = "raise" THEN Raise ELSE obj.name
            /\ pc' = "done"
            /\ gathered' = FALSE
            /\ UNCHANGED <<maxDepth, maxItems, out, stack, reads>>
    /\ UNCHANGED <<obj, clsList, hooked>>

\* Mutant of NameAfterGather: only the first piece is returned.
NameFirstPiece(pieces, original) ==
    IF pieces # <<>> THEN Str(pieces[1]) ELSE original

\* Lines 175-177 and 202-205: the name returned after gathering.
NameAfterGather(pieces, original) ==
    IF pieces # <<>> THEN Str(Join(pieces)) ELSE original

GetNameEnd ==
    /\ pc = "visit"
    /\ op = "name"
    /\ stack = <<>>
    /\ result' = NameAfterGather(out, obj.name)
    /\ pc' = "done"
    /\ UNCHANGED <<obj, clsList, hooked, op, maxDepth, maxItems, out, stack,
                   reads, gathered>>

Overlay == "UnlabeledDotNetNameOverlay"

\* Mutant of ShouldAttach: the current name is not looked at.
ShouldAttachNamed(o) ==
    IF ~IsDotNetUI(o) THEN FALSE
    ELSE IF o.role.k = "raise" THEN FALSE
    ELSE RoleCandidate(o.role, IsFocusable(o)) \/ RoleIn(o.role, ITEM_ROLES)

\* Lines 213-246: whether chooseNVDAObjectOverlayClasses reaches its insert.
ShouldAttach(o) ==
    IF ~IsDotNetUI(o) THEN FALSE
    ELSE IF o.role.k = "raise" THEN FALSE
    ELSE LET role == o.role
             eligible == RoleCandidate(role, IsFocusable(o))
                         \/ RoleIn(role, ITEM_ROLES)
             curName == IF o.name.k = "raise" THEN None ELSE o.name
         IN IF ~eligible THEN FALSE
            ELSE ~(Truthy(curName)
                   /\ ~(RoleIn(role, ITEM_ROLES) /\ IsClassyName(curName)))

\* Mutant of InsertFirst: append instead of insert(0, ...).
InsertLast(l, cls) == Append(l, cls)

\* Line 251: clsList.insert(0, cls)
InsertFirst(l, cls) == <<cls>> \o l

\* chooseNVDAObjectOverlayClasses(obj, clsList)
ChooseOverlay ==
    /\ pc \in {"idle", "done"}
    /\ ~hooked
    /\ hooked' = TRUE
    /\ clsList' = IF ShouldAttach(obj) THEN InsertFirst(clsList, Overlay)
                  ELSE clsList
    /\ UNCHANGED <<obj, pc, op, maxDepth, maxItems, out, stack, reads,
                   gathered, result>>

\* A call _isDotNetUI(obj).
Detect ==
    /\ pc = "idle"
    /\ op' = "detect"
    /\ result' = IsDotNetUI(obj)
    /\ pc' = "done"
    /\ UNCHANGED <<obj, clsList, hooked, maxDepth, maxItems, out, stack, reads,
                   gathered>>

-----------------------------------------------------------------------------
(* The elements the host presents *)

Digits == <<"1", "2", "3", "4", "5", "6", "7", "8", "9">>

\* A text that names the node at path p.
Text(p) == <<"n">> \o [i \in 1..Len(p) |-> Digits[p[i]]]

Blank == <<" ">>

\* How a node exposes its text t.
Kinds == {"name", "padded", "value", "emptyNameValue", "blankNameValue",
          "desc", "emptyValueDesc", "blankValueDesc", "nameAndValue",
          "valueAndDesc", "nothing", "raiseName", "raiseValue", "raiseDesc",
          "raiseChildren"}

Node(kind, t, kids) ==
    LET other == Str(<<"x">>)
        attrs ==
          CASE kind = "name" -> <<Str(t), None, None>>
            [] kind = "padded" -> <<Str(<<" ">> \o t \o <<"\t">>), None, None>>
            [] kind = "value" -> <<None, Str(t), None>>
            [] kind = "emptyNameValue" -> <<Str(<<>>), Str(t), None>>
            [] kind = "blankNameValue" -> <<Str(Blank), Str(t), None>>
            [] kind = "desc" -> <<None, None, Str(t)>>
            [] kind = "emptyValueDesc" -> <<None, Str(<<>>), Str(t)>>
            [] kind = "blankValueDesc" -> <<None, Str(Blank), Str(t)>>
            [] kind = "nameAndValue" -> <<Str(t), other, other>>
            [] kind = "valueAndDesc" -> <<None, Str(t), other>>
            [] kind = "nothing" -> <<None, None, None>>
            [] kind = "raiseName" -> <<Raise, Str(t), None>>
            [] kind = "raiseValue" -> <<None, Raise, Str(t)>>
            [] kind = "raiseDesc" -> <<None, None, Raise>>
            [] kind = "raiseChildren" -> <<Str(t), None, None>>
    IN [name |-> attrs[1], value |-> attrs[2], description |-> attrs[3],
        children |-> IF kind = "raiseChildren" THEN Raise ELSE kids]

\* The children attribute of the node at path p in a tree d levels deep below
\* it and w wide, first children of kind kA, the others of kind kB.
RECURSIVE Kids(_, _, _, _, _)
Kids(p, d, w, kA, kB) ==
    IF d = 0 THEN None
    ELSE List([i \in 1..w |->
                 Node(IF i = 1 THEN kA ELSE kB, Text(Append(p, i)),
                      Kids(Append(p, i), d - 1, w, kA, kB))])

Element(name, role, states, uia, wcn, kids) ==
    [name |-> name, role |-> role, states |-> states, UIAElement |-> uia,
     windowClassName |-> wcn, children |-> kids]

Handle(a, b, c, d) ==
    Obj([cachedFrameworkID |-> a, cachedFrameworkId |-> b,
         CurrentFrameworkId |-> c, currentFrameworkId |-> d])

InitCall ==
    /\ hooked = FALSE
    /\ pc = "idle"
    /\ op = "none"
    /\ maxDepth = DefaultMaxDepth
    /\ maxItems = DefaultMaxItems
    /\ out = <<>>
    /\ stack = <<>>
    /\ reads = <<>>
    /\ gathered = FALSE
    /\ result = None

\* --- direct calls of _gatherTextFromChildren ---

Trees ==
    {None, Raise, List(<<>>)}
    \cup {Kids(<<>>, d, 1, kA, kA) : d \in 1..MaxTreeDepth, kA \in Kinds}
    \cup {Kids(<<>>, d, w, kA, kB) :
            d \in 1..MaxTreeDepth, w \in 2..MaxWidth, kA \in Kinds,
            kB \in Kinds}

InitCollect ==
    /\ obj \in {Element(None, Str("PANE"), None, None, None, kids) :
                  kids \in Trees}
    /\ clsList = <<>>
    /\ InitCall

NextCollect == GatherBegin \/ VisitNode \/ VisitReturn \/ GatherEnd

SpecCollect == InitCollect /\ [][NextCollect]_vars

\* --- calls of _isDotNetUI ---

FrameworkIds == {Str(<<"W", "P", "F">>), Str(<<"w", "p", "f">>), Str(<<"X", "a", "m", "l">>), Str(<<"W", "i", "n", "F", "o", "r", "m">>),
                 Str(<<"W", "i", "n", "F", "o", "r", "m", "s">>), Str(<<"m", "a", "u", "i">>), Str(<<"W", "i", "n", "3", "2">>), Str(<<"W", "P", "F", "X">>)}

FirstAttrValues == {None, Raise, Str(<<>>)} \cup FrameworkIds

LaterAttrValues == {None, Raise, Str(<<>>), Str(<<"W", "p", "f">>), Str(<<"Q", "t">>)}

WindowClassNames == {None, Raise, Str(<<>>), Str(<<"W", "i", "n", "d", "o", "w", "s", "F", "o", "r", "m", "s", "1", "0", ".", "E", "D", "I", "T", ".", "a", "p", "p", ".", "0", ".", "3", "7", "8", "7", "3", "4", "a">>),
                     Str(<<"W", "i", "n", "d", "o", "w", "s", "F", "o", "r", "m", "s", "1", "0", ".">>), Str(<<"W", "i", "n", "d", "o", "w", "s", "F", "o", "r", "m", "s", "1">>),
                     Str(<<"x", "W", "i", "n", "d", "o", "w", "s", "F", "o", "r", "m", "s", "1", "0", ".">>), Str(<<"C", "h", "r", "o", "m", "e", "_", "W", "i", "d", "g", "e", "t", "W", "i", "n", "_", "1">>)}

InitDetect ==
    /\ obj \in {Element(None, Str("PANE"), None, uia, wcn, None) :
                  uia \in {None, Raise}
                          \cup {Handle(a, b, c, d) :
                                  a \in FirstAttrValues,
                                  b \in LaterAttrValues,
                                  c \in LaterAttrValues,
                                  d \in LaterAttrValues},
                  wcn \in WindowClassNames}
    /\ clsList = <<>>
    /\ InitCall

NextDetect == Detect

SpecDetect == InitDetect /\ [][NextDetect]_vars

\* --- the registration hook and the name query on one element ---

Names == {Raise, None, Str(<<>>), Str(Blank), Str(<<"O", "K">>), Str(<<"F", "i", "l", "e", " ", "M", "e", "n", "u">>),
          Str(<<"a", ".", "b", "c", "d", "e", "f">>), Str(<<"a", "b", ".", "c", "d", "e", "f", "g">>), Str(<<" ", "A", "b", ".", "V", "i", "e", "w", "s", " ">>),
          Str(<<"A", "p", "p", ".", "V", "i", "e", "w", "s", ".", "L", "i", "s", "t", "I", "t", "e", "m">>), Str(<<"A", "p", "p", ".", " ", "V", "i", "e", "w", "s", ".", "I", "t", "e", "m">>)}

Roles == {Raise, Str("BUTTON"), Str("PANE"), Str("LISTITEM"),
          Str("TREEVIEWITEM"), Str("WINDOW")}

StateSets == {Raise, None, SetOf({"FOCUSED"}), SetOf({FOCUSABLE, "FOCUSED"})}

\* <<UIAElement, windowClassName>>
Frameworks == {<<Handle(Str(<<"W", "p", "f">>), None, None, None), None>>,
               <<None, Str(<<"W", "i", "n", "d", "o", "w", "s", "F", "o", "r", "m", "s", "1", "0", ".", "E", "D", "I", "T", ".", "a", "p", "p", ".", "0", ".", "3", "7", "8", "7", "3", "4", "a">>)>>,
               <<Handle(None, Str(<<"W", "i", "n", "3", "2">>), None, None), Str(<<"C", "h", "r", "o", "m", "e", "_", "W", "i", "d", "g", "e", "t", "W", "i", "n", "_", "1">>)>>,
               <<Raise, Raise>>}

SaveFile ==
    List(<<Node("name", <<"S", "a", "v", "e">>, None), Node("name", <<"F", "i", "l", "e">>, None)>>)

ElementTrees == {None, Raise, SaveFile,
                 Kids(<<>>, 2, 2, "nothing", "blankNameValue"),
                 Kids(<<>>, 5, 1, "name", "name"),
                 Kids(<<>>, 2, 3, "padded", "value")}

ClsLists == {<<>>, <<"UIA", "Window">>}

Init ==
    /\ obj \in {Element(n, r, s, f[1], f[2], kids) :
                  n \in Names, r \in Roles, s \in StateSets, f \in Frameworks,
                  kids \in ElementTrees}
    /\ clsList \in ClsLists
    /\ InitCall

Next == ChooseOverlay \/ GetNameBegin \/ VisitNode \/ VisitReturn \/ GetNameEnd

Spec == Init /\ [][Next]_vars

-----------------------------------------------------------------------------
(* What the claims speak of, stated apart from the model of the code *)

\* The fragments joined by single spaces, built from the right.
RECURSIVE SpaceJoined(_)
SpaceJoined(fs) ==
    IF fs = <<>> THEN <<>>
    ELSE IF Len(fs) = 1 THEN fs[1]
    ELSE SpaceJoined(SubSeq(fs, 1, Len(fs) - 1)) \o <<" ">> \o fs[Len(fs)]

\* s without its leading and trailing whitespace.
Trimmed(s) ==
    IF \A i \in 1..Len(s) : s[i] \in Whitespace THEN <<>>
    ELSE LET a == CHOOSE i \in 1..Len(s) :
                    s[i] \notin Whitespace /\ \A j \in 1..(i - 1) : s[j] \in Whitespace
             b == CHOOSE i \in 1..Len(s) :
                    s[i] \notin Whitespace
                    /\ \A j \in (i + 1)..Len(s) : s[j] \in Whitespace
         IN SubSeq(s, a, b)

\* The classy-name pattern: non-empty after trimming, no space, a dot,
\* length at least 8.
ClassyPattern(s) ==
    LET t == Trimmed(s) IN
    /\ t # <<>>
    /\ \A i \in 1..Len(t) : t[i] # " "
    /\ \E i \in 1..Len(t) : t[i] = "."
    /\ Len(t) >= 8

NameQueryDone == pc = "done" /\ op = "name"

NonEmptyName == obj.name.k = "str" /\ obj.name.v # <<>>

EmptyName == obj.name.k = "none" \/ (obj.name.k = "str" /\ obj.name.v = <<>>)

RoleIs(S) == obj.role.k = "str" /\ obj.role.v \in S

AlwaysCandidate == {"BUTTON", "TOGGLEBUTTON", "LINK", "MENUITEM", "TAB",
                    "TABITEM", "CHECKBOX", "RADIOBUTTON"}

FocusableCandidate == {"PANE", "STATIC_TEXT", "GROUPING"}

ItemRoles == {"LISTITEM", "TREEVIEWITEM"}

HasFocusable == obj.states.k = "set" /\ "FOCUSABLE" \in obj.states.v

Attached == clsList # <<>> /\ clsList[1] = Overlay

\* Path p comes before path q in document order (pre-order).
PathBefore(p, q) ==
    \/ Len(p) < Len(q) /\ SubSeq(q, 1, Len(p)) = p
    \/ \E i \in 1..Len(p) :
         /\ i <= Len(q)
         /\ SubSeq(p, 1, i - 1) = SubSeq(q, 1, i - 1)
         /\ p[i] < q[i]

\* The nodes were read in document order.
ReadInDocumentOrder ==
    \A i, j \in 1..Len(reads) : i < j => PathBefore(reads[i], reads[j])

\* The text the code took from each node read, the nodes without text left out.
RECURSIVE FragmentsOf(_)
FragmentsOf(ps) ==
    IF ps = <<>> THEN <<>>
    ELSE LET r == NodeText(NodeAt(obj, Head(ps))) IN
         (IF ~r.raised /\ r.frag # <<>> THEN <<r.frag>> ELSE <<>>)
         \o FragmentsOf(Tail(ps))

\* C1: a non-empty original name that does not match the classy-name pattern
\* is returned unchanged, without any descendant being read, whatever the
\* role, states, framework and descendants are.
C1_PlainNameKept ==
    (NameQueryDone /\ NonEmptyName /\ ~ClassyPattern(obj.name.v))
        => (result = obj.name /\ ~gathered /\ reads = <<>>)

C1_Witness ==
    /\ NameQueryDone
    /\ obj.name = Str(<<"F", "i", "l", "e", " ", "M", "e", "n", "u">>)
    /\ RoleIs(ItemRoles)
    /\ IsDotNetUI(obj)
    /\ obj.children = SaveFile
    /\ result = obj.name

\* C2: no node more than maxDepth levels below the element (its children are
\* level 1) is read, and no fragment comes from such a node.
C2_DepthBound ==
    pc # "idle" => \A i \in 1..Len(reads) : Len(reads[i]) <= maxDepth

\* C3: the list of fragments never holds more than maxItems entries, neither
\* during the traversal nor when returned, and once it holds maxItems no
\* further node is read.
C3_ItemCap ==
    /\ [](pc # "idle" => Len(out) <= maxItems)
    /\ []((pc = "done" /\ op = "gather")
             => (result.k = "list" /\ Len(result.v) <= maxItems))
    /\ [][(pc = "visit" /\ Len(out) >= maxItems) => reads' = reads]_vars

C3_Witness ==
    /\ pc = "visit"
    /\ op = "gather"
    /\ maxItems > 0
    /\ Len(out) = maxItems
    /\ stack # <<>>
    /\ stack[Len(stack)].i <= Len(Nodes(stack[Len(stack)].path))

C5_EmptyName ==
    (NameQueryDone /\ EmptyName)
        => LET eligible == /\ IsDotNetUI(obj)
                           /\ \/ RoleIs(AlwaysCandidate)
                              \/ (RoleIs(FocusableCandidate) /\ HasFocusable)
           IN /\ gathered = eligible
              /\ eligible => (ReadInDocumentOrder /\ out = FragmentsOf(reads))
              /\ result = IF eligible /\ out # <<>> THEN Str(SpaceJoined(out))
                          ELSE obj.name

C5_Witness ==
    /\ NameQueryDone
    /\ EmptyName
    /\ RoleIs(FocusableCandidate)
    /\ HasFocusable
    /\ obj.children = SaveFile
    /\ result = Str(<<"S", "a", "v", "e", " ", "F", "i", "l", "e">>)

\* C6: the registration hook puts the synthesizer at index 0, before the
\* entries the list held, which keep their order, exactly when the element is
\* of the target framework, its role is in AlwaysCandidate, in
\* FocusableCandidate with FOCUSABLE, or in ItemRoles, and it has no
\* (readable, non-empty) name or is an item with a classy name; otherwise the
\* list is unchanged.
C6_HookInserts ==
    [][(~hooked /\ hooked')
        => LET attach ==
                 /\ IsDotNetUI(obj)
                 /\ \/ RoleIs(AlwaysCandidate)
                    \/ (RoleIs(FocusableCandidate) /\ HasFocusable)
                    \/ RoleIs(ItemRoles)
                 /\ \/ ~NonEmptyName
                    \/ (RoleIs(ItemRoles) /\ ClassyPattern(obj.name.v))
           IN clsList' = IF attach THEN <<Overlay>> \o clsList ELSE clsList]_vars

C6_Witness ==
    /\ hooked
    /\ Len(clsList) = 3
    /\ clsList[1] = Overlay
    /\ clsList[2] = "UIA"
    /\ clsList[3] = "Window"

StatesReadFails ==
    /\ obj.states.k = "raise"
    /\ EmptyName
    /\ obj.role.k # "raise"
    /\ IsDotNetUI(obj)

\* C8 as claimed: when reading the role or the states raises, the query
\* returns the original name, for every role.
C8_FailureKeepsOriginal ==
    (NameQueryDone /\ obj.name.k # "raise"
       /\ (obj.role.k = "raise" \/ StatesReadFails))
        => result = obj.name

\* C8 amended: when reading the role raises, the query returns the original
\* name without gathering. When reading the states raises, the element counts
\* as not focusable: an AlwaysCandidate role is still synthesized from its
\* descendants, every other role keeps the original name without gathering.
\* Nothing is raised to the host in either case.
C8_FailureSemantics ==
    (NameQueryDone /\ obj.name.k # "raise")
        => /\ obj.role.k = "raise" => (result = obj.name /\ ~gathered)
           /\ StatesReadFails
                => /\ gathered = RoleIs(AlwaysCandidate)
                   /\ result = IF RoleIs(AlwaysCandidate) /\ out # <<>>
                               THEN Str(SpaceJoined(out))
                               ELSE obj.name
           /\ (obj.role.k = "raise" \/ StatesReadFails) => result.k # "raise"

C8_Witness ==
    /\ NameQueryDone
    /\ StatesReadFails
    /\ RoleIs(AlwaysCandidate)
    /\ obj.children = SaveFile
    /\ result = Str(<<"S", "a", "v", "e", " ", "F", "i", "l", "e">>)

\* The framework handle has a first non-empty attribute, read without any
\* earlier read raising, whose upper-cased value names a target framework.
HandleMatches ==
    /\ obj.UIAElement.k = "obj"
    /\ \E i \in 1..Len(FrameworkAttrs) :
         LET a == obj.UIAElement.v[FrameworkAttrs[i]] IN
         /\ a.k = "str"
         /\ a.v # <<>>
         /\ \A j \in 1..(i - 1) :
              LET b == obj.UIAElement.v[FrameworkAttrs[j]] IN
              b.k = "none" \/ (b.k = "str" /\ b.v = <<>>)
         /\ Upper(a.v) \in {<<"W", "P", "F">>, <<"X", "A", "M", "L">>, <<"W", "I", "N", "F", "O", "R", "M">>, <<"W", "I", "N", "F", "O", "R", "M", "S">>, <<"M", "A", "U", "I">>}

WindowClassMatches ==
    /\ obj.windowClassName.k = "str"
    /\ Len(obj.windowClassName.v) >= 15
    /\ SubSeq(obj.windowClassName.v, 1, 15) = <<"W", "i", "n", "d", "o", "w", "s", "F", "o", "r", "m", "s", "1", "0", ".">>

\* An attribute read that _isDotNetUI makes raises.
DetectReadFails ==
    \/ obj.UIAElement.k = "raise"
    \/ /\ obj.UIAElement.k = "obj"
       /\ \E i \in 1..Len(FrameworkAttrs) :
            /\ obj.UIAElement.v[FrameworkAttrs[i]].k = "raise"
            /\ \A j \in 1..(i - 1) :
                 LET b == obj.UIAElement.v[FrameworkAttrs[j]] IN
                 b.k = "none" \/ (b.k = "str" /\ b.v = <<>>)
    \/ (~HandleMatches /\ obj.windowClassName.k = "raise")

DetectDone == pc = "done" /\ op = "detect"

\* C9 as claimed: true on a handle match or else on a window class match,
\* false when neither holds, and false whenever an attribute read raises.
C9_DetectFalseOnFailure ==
    DetectDone
        => result = IF DetectReadFails THEN FALSE
                    ELSE (HandleMatches \/ WindowClassMatches)

\* C9 amended: true on a handle match or else on a window class match, false
\* when neither holds. A raising read of the handle or of one of its
\* attributes ends the handle probe without a match and the window class is
\* still tested; a raising read of the window class name gives false.
C9_Detect ==
    DetectDone => result = (HandleMatches \/ WindowClassMatches)

C9_Witness ==
    /\ DetectDone
    /\ obj.UIAElement.k = "raise"
    /\ WindowClassMatches
    /\ result = TRUE

\* The fragment of a node as claimed: the first of name, value, description
\* that is non-empty after trimming, trimmed.
ClaimedFragment(n) ==
    LET of(a) == IF a.k = "str" THEN Trimmed(a.v) ELSE <<>> IN
    IF of(n.name) # <<>> THEN of(n.name)
    ELSE IF of(n.value) # <<>> THEN of(n.value)
    ELSE of(n.description)

\* C10: a visited node whose attributes can be read contributes the trimmed
\* name if that is non-empty, else the trimmed value if that is non-empty,
\* else the trimmed description if that is non-empty, else nothing.
C10_FragmentChoice ==
    [][reads' # reads /\ reads' # <<>>
        => LET n == NodeAt(obj, reads'[Len(reads')]) IN
           ("raise" \notin {n.name.k, n.value.k, n.description.k})
               => out' = IF ClaimedFragment(n) # <<>>
                         THEN Append(out, ClaimedFragment(n))
                         ELSE out]_vars

====
